---------------------------- MODULE Spec2Model ----------------------------
(***************************************************************************)
(* Model of the complaint listener of ai.py: the text normaliser, the      *)
(* keyword classifier, the deadline policy and the on_snapshot callback    *)
(* that reacts to the change feed of the "complaints" collection.          *)
(*                                                                         *)
(* Text is a sequence of one-character strings.  Time is a number of       *)
(* hours on the naive local clock that datetime.now() reads.               *)
(***************************************************************************)
EXTENDS Integers, Sequences, FiniteSets, TLC

(* ---------------------------- bounds ---------------------------------- *)
MaxTicks   == 3   \* clock ticks (one tick is the Medium deadline window)
MaxActions == 1   \* audit-log entries external actors append per complaint
MaxWords   == 3   \* words of a description the classifier is tried on

(* ---------------------------- CLEAN TEXT ------------------------------ *)
UpperCase ==
  <<"A","B","C","D","E","F","G","H","I","J","K","L","M",
    "N","O","P","Q","R","S","T","U","V","W","X","Y","Z">>

LowerCase ==
  <<"a","b","c","d","e","f","g","h","i","j","k","l","m",
    "n","o","p","q","r","s","t","u","v","w","x","y","z">>

\* str.lower() on one character
lower(c) ==
  IF \E k \in 1..Len(UpperCase) : UpperCase[k] = c
  THEN LowerCase[CHOOSE k \in 1..Len(UpperCase) : UpperCase[k] = c]
  ELSE c

\* re.sub(r"[^a-z ]", " ", .) on one character
sub_non_alpha(c) ==
  IF (\E k \in 1..Len(LowerCase) : LowerCase[k] = c) \/ c = " " THEN c ELSE " "

\* re.sub(r"\s+", " ", .): every run of blanks becomes one blank
RECURSIVE sub_spaces(_)
sub_spaces(s) ==
  IF Len(s) <= 1 THEN s
  ELSE IF s[1] = " " /\ s[2] = " " THEN sub_spaces(Tail(s))
  ELSE <<s[1]>> \o sub_spaces(Tail(s))

\* str.strip()
RECURSIVE strip(_)
strip(s) ==
  IF s = <<>> THEN s
  ELSE IF s[1] = " " THEN strip(Tail(s))
  ELSE IF s[Len(s)] = " " THEN strip(SubSeq(s, 1, Len(s) - 1))
  ELSE s

clean(text) ==
  LET lowered  == [k \in 1..Len(text) |-> lower(text[k])]
      replaced == [k \in 1..Len(text) |-> sub_non_alpha(lowered[k])]
  IN  strip(sub_spaces(replaced))

(* ---------------------------- KEYWORD DATABASE ------------------------ *)
KEYWORDS ==
  [ Water |-> <<
        <<"w","a","t","e","r">>,
        <<"s","u","p","p","l","y">>,
        <<"n","o"," ","w","a","t","e","r">>,
        <<"p","i","p","e","l","i","n","e">>,
        <<"p","i","p","e">>,
        <<"t","a","p">>,
        <<"p","r","e","s","s","u","r","e">>,
        <<"t","a","n","k">>,
        <<"l","e","a","k">>,
        <<"l","e","a","k","a","g","e">>,
        <<"d","i","r","t","y"," ","w","a","t","e","r">>,
        <<"d","r","i","n","k","i","n","g"," ","w","a","t","e","r">>,
        <<"w","a","t","e","r"," ","s","h","o","r","t","a","g","e">>,
        <<"m","a","n","h","o","l","e">>,
        <<"o","p","e","n"," ","m","a","n","h","o","l","e">>
      >>,
    Electricity |-> <<
        <<"e","l","e","c","t","r","i","c">>,
        <<"e","l","e","c","t","r","i","c","i","t","y">>,
        <<"p","o","w","e","r">>,
        <<"c","u","r","r","e","n","t">>,
        <<"l","i","g","h","t">>,
        <<"l","i","g","h","t","s">>,
        <<"s","t","r","e","e","t","l","i","g","h","t">>,
        <<"w","i","r","e">>,
        <<"s","p","a","r","k">>,
        <<"s","h","o","c","k">>,
        <<"t","r","a","n","s","f","o","r","m","e","r">>,
        <<"p","o","l","e">>,
        <<"m","e","t","e","r">>,
        <<"v","o","l","t","a","g","e">>,
        <<"p","o","w","e","r"," ","c","u","t">>,
        <<"s","h","o","r","t"," ","c","i","r","c","u","i","t">>
      >>,
    Municipality |-> <<
        <<"g","a","r","b","a","g","e">>,
        <<"w","a","s","t","e">>,
        <<"d","u","m","p">>,
        <<"d","u","m","p","i","n","g">>,
        <<"d","r","a","i","n">>,
        <<"d","r","a","i","n","s">>,
        <<"s","e","w","e","r">>,
        <<"s","e","w","a","g","e">>,
        <<"d","i","r","t","y">>,
        <<"s","m","e","l","l">>,
        <<"m","o","s","q","u","i","t","o">>,
        <<"s","a","n","i","t","a","t","i","o","n">>,
        <<"t","o","i","l","e","t">>,
        <<"d","u","s","t","b","i","n">>
      >>,
    PWD |-> <<
        <<"r","o","a","d">>,
        <<"r","o","a","d","s">>,
        <<"p","o","t","h","o","l","e">>,
        <<"p","o","t","h","o","l","e","s">>,
        <<"b","r","i","d","g","e">>,
        <<"f","l","y","o","v","e","r">>,
        <<"h","i","g","h","w","a","y">>,
        <<"f","o","o","t","p","a","t","h">>,
        <<"d","i","v","i","d","e","r">>,
        <<"c","u","l","v","e","r","t">>,
        <<"c","r","a","c","k">>,
        <<"c","o","l","l","a","p","s","e">>,
        <<"a","s","p","h","a","l","t">>,
        <<"c","o","n","s","t","r","u","c","t","i","o","n">>,
        <<"s","p","e","e","d"," ","b","r","e","a","k","e","r">>
      >>,
    Police |-> <<
        <<"t","h","e","f","t">>,
        <<"s","t","o","l","e","n">>,
        <<"r","o","b","b","e","r","y">>,
        <<"f","i","g","h","t">>,
        <<"f","i","g","h","t","i","n","g">>,
        <<"q","u","a","r","r","e","l">>,
        <<"h","a","r","a","s","s">>,
        <<"h","a","r","a","s","s","m","e","n","t">>,
        <<"e","v","e"," ","t","e","a","s","i","n","g">>,
        <<"c","r","i","m","e">>,
        <<"c","r","i","m","i","n","a","l">>,
        <<"t","h","r","e","a","t">>,
        <<"d","r","u","n","k">>,
        <<"a","l","c","o","h","o","l">>,
        <<"d","r","u","g">>,
        <<"n","o","i","s","e">>,
        <<"l","o","u","d">>,
        <<"d","i","s","t","u","r","b","a","n","c","e">>,
        <<"s","e","c","u","r","i","t","y">>,
        <<"u","n","s","a","f","e">>
      >>,
    Traffic |-> <<
        <<"t","r","a","f","f","i","c">>,
        <<"s","i","g","n","a","l">>,
        <<"s","i","g","n","a","l","s">>,
        <<"p","a","r","k","i","n","g">>,
        <<"j","a","m">>,
        <<"c","o","n","g","e","s","t","i","o","n">>,
        <<"j","u","n","c","t","i","o","n">>,
        <<"c","r","o","s","s","i","n","g">>,
        <<"w","r","o","n","g"," ","s","i","d","e">>,
        <<"a","c","c","i","d","e","n","t">>,
        <<"r","a","s","h"," ","d","r","i","v","i","n","g">>,
        <<"s","p","e","e","d","i","n","g">>,
        <<"b","u","s"," ","s","t","o","p">>,
        <<"l","a","n","e">>
      >> ]

PRIORITY_KEYWORDS ==
  [ High |-> <<
        <<"l","i","v","e"," ","w","i","r","e">>,
        <<"e","l","e","c","t","r","i","c"," ","s","h","o","c","k">>,
        <<"f","i","r","e">>,
        <<"b","i","g"," ","j","a","m">>,
        <<"c","o","l","l","a","p","s","e">>,
        <<"f","a","l","l","e","n">>,
        <<"b","u","r","s","t">>,
        <<"o","p","e","n"," ","m","a","n","h","o","l","e">>,
        <<"a","c","c","i","d","e","n","t">>,
        <<"d","a","n","g","e","r">>,
        <<"e","m","e","r","g","e","n","c","y">>,
        <<"a","t","t","a","c","k">>,
        <<"f","i","g","h","t">>,
        <<"t","h","e","f","t">>
      >>,
    Medium |-> <<
        <<"n","o","t"," ","w","o","r","k","i","n","g">>,
        <<"d","a","m","a","g","e","d">>,
        <<"l","e","a","k">>,
        <<"o","v","e","r","f","l","o","w">>,
        <<"b","l","o","c","k","e","d">>,
        <<"f","r","e","q","u","e","n","t">>,
        <<"l","o","w"," ","p","r","e","s","s","u","r","e">>,
        <<"d","e","l","a","y">>
      >>,
    Low |-> <<
        <<"d","i","r","t","y">>,
        <<"d","u","s","t">>,
        <<"s","m","a","l","l">>,
        <<"m","i","n","o","r">>,
        <<"s","l","o","w">>,
        <<"d","i","m">>,
        <<"m","a","i","n","t","e","n","a","n","c","e">>
      >> ]

\* iteration order of the two dictionaries (insertion order)
DepartmentOrder ==
  <<"Water", "Electricity", "Municipality", "PWD", "Police", "Traffic">>

PriorityOrder == <<"High", "Medium", "Low">>

(* ---------------------------- SCORING --------------------------------- *)
\* k in text
Contains(text, k) ==
  \E p \in 0..(Len(text) - Len(k)) :
     \A q \in 1..Len(k) : text[p + q] = k[q]

\* keyword_score counting every occurrence of a keyword
keyword_score_occurrences(text, keywords) ==
  LET hits(k) == Cardinality({p \in 0..(Len(text) - Len(k)) :
                                \A q \in 1..Len(k) : text[p + q] = k[q]})
      RECURSIVE total(_)
      total(n) == IF n = 0 THEN 0 ELSE hits(keywords[n]) + total(n - 1)
  IN  total(Len(keywords))

keyword_score(text, keywords) ==
  Cardinality({n \in 1..Len(keywords) : Contains(text, keywords[n])})

\* max(scores, key=scores.get): the first key, in iteration order, whose
\* score no other key exceeds
\* BestOf keeping the last of the keys that share the best score
BestOf_last(order, scores) ==
  LET n == CHOOSE k \in 1..Len(order) :
             /\ \A j \in 1..Len(order) : scores[order[j]] <= scores[order[k]]
             /\ \A j \in (k + 1)..Len(order) : scores[order[j]] < scores[order[k]]
  IN  order[n]

BestOf(order, scores) ==
  LET n == CHOOSE k \in 1..Len(order) :
             /\ \A j \in 1..Len(order) : scores[order[j]] <= scores[order[k]]
             /\ \A j \in 1..(k - 1) : scores[order[j]] < scores[order[k]]
  IN  order[n]

predict_department(text) ==
  LET scores == [d \in DOMAIN KEYWORDS |-> keyword_score(text, KEYWORDS[d])]
      best   == BestOf(DepartmentOrder, scores)
  IN  <<best, scores[best] * 20>>

predict_priority(text) ==
  LET scores == [p \in DOMAIN PRIORITY_KEYWORDS |->
                    keyword_score(text, PRIORITY_KEYWORDS[p])]
      best   == BestOf(PriorityOrder, scores)
  IN  <<best, scores[best] * 25>>

(* ---------------------------- SET DEADLINE ---------------------------- *)
HoursPerDay == 24

\* timedelta(hours=h) and timedelta(days=d), in hours
timedelta_hours(h) == h
timedelta_days(d)  == d * HoursPerDay

\* set_deadline with the week given in hours
set_deadline_week_in_hours(priority, now_) ==
  IF priority = "High" THEN now_ + timedelta_hours(24)
  ELSE IF priority = "Medium" THEN now_ + timedelta_hours(72)
  ELSE now_ + timedelta_hours(7)

set_deadline(priority, now_) ==
  IF priority = "High" THEN now_ + timedelta_hours(24)
  ELSE IF priority = "Medium" THEN now_ + timedelta_hours(72)
  ELSE now_ + timedelta_days(7)

(* ---------------------------- CHECK OVERDUE --------------------------- *)
\* A datetime handed to the store comes back as a timestamp that carries a
\* timezone; replace(tzinfo=None) keeps its wall-clock reading.
NoTimestamp == [wall |-> -1, tzinfo |-> "None"]

ToTimestamp(t) == [wall |-> t, tzinfo |-> "UTC"]

replace_tzinfo_None(ts) == ts.wall

\* datetime.isoformat(): the text of the naive reading
isoformat(t) == [iso |-> t]

check_overdue(deadline_timestamp, now_) ==
  IF deadline_timestamp = NoTimestamp THEN FALSE
  ELSE now_ > replace_tzinfo_None(deadline_timestamp)

(* ---------------------------- complaints ------------------------------ *)
\* document ids: on_snapshot handles one document per iteration and reads
\* nothing but the change it is given, so one complaint shows everything
\* that happens to a complaint; two are needed for a batch of two changes
Ids == {1, 2}

OneId == {1}

\* raw descriptions citizens submit
Descriptions ==
  { <<"L","i","v","e"," ","w","i","r","e","!">>,
    <<"T","a","p"," "," ","L","E","A","K">>,
    <<"d","i","m"," ","r","o","a","d","2">> }

\* dict.get(key, default)
get(data, key, default) == IF key \in DOMAIN data THEN data[key] ELSE default

\* the fields that hold datetimes
TimeFields == {"deadline", "lastUpdated"}

\* DocumentReference.update(fields): merge the given fields into the
\* document, leaving every other field as it is
document_update(doc, fields) ==
  [f \in DOMAIN doc \cup DOMAIN fields |->
     IF f \in DOMAIN fields
     THEN IF f \in TimeFields THEN ToTimestamp(fields[f]) ELSE fields[f]
     ELSE doc[f]]

\* no call of update()
NoUpdate == [f \in {} |-> 0]

(* ---------------------------- FIRESTORE LISTENER ---------------------- *)
\* on_added, reclassifying whatever is not yet in work or resolved
on_added_skips_closed(data, now_) ==
  IF get(data, "status", "None") \in {"resolved", "under_action"} THEN NoUpdate
  ELSE
    LET text == clean(get(data, "description", <<>>))
        dept == predict_department(text)
        prio == predict_priority(text)
    IN  [department           |-> dept[1],
         departmentConfidence |-> dept[2],
         priority             |-> prio[1],
         priorityConfidence   |-> prio[2],
         status               |-> "classified",
         deadline             |-> set_deadline(prio[1], now_),
         actions              |-> Append(get(data, "actions", <<>>),
                                   [action    |-> <<"AI classified as", prio[1],
                                                    "priority for", dept[1],
                                                    "department">>,
                                    timestamp |-> isoformat(now_),
                                    by        |-> "AI System"]),
         lastUpdated          |-> now_]

\* on_added comparing the status with a differently spelled word
on_added_wrong_case(data, now_) ==
  IF get(data, "status", "None") # "New" THEN NoUpdate
  ELSE on_added_skips_closed(data, now_)

\* on_added without the check of the status
on_added_unguarded(data, now_) ==
  on_added_skips_closed([data EXCEPT !.status = "new"], now_)

\* the branch of on_snapshot for change.type.name == "ADDED": the argument
\* of update(), or NoUpdate when the branch continues without a write
on_added(data, now_) ==
  IF get(data, "status", "None") # "new" THEN NoUpdate
  ELSE
    LET text       == clean(get(data, "description", <<>>))
        dept       == predict_department(text)
        prio       == predict_priority(text)
        department == dept[1]
        dept_conf  == dept[2]
        priority   == prio[1]
        pr_conf    == prio[2]
        deadline   == set_deadline(priority, now_)
        current_actions == get(data, "actions", <<>>)
        classification_action ==
          [action    |-> <<"AI classified as", priority,
                           "priority for", department, "department">>,
           timestamp |-> isoformat(now_),
           by        |-> "AI System"]
    IN  [department           |-> department,
         departmentConfidence |-> dept_conf,
         priority             |-> priority,
         priorityConfidence   |-> pr_conf,
         status               |-> "classified",
         deadline             |-> deadline,
         actions              |-> Append(current_actions, classification_action),
         lastUpdated          |-> now_]

\* on_modified without the check of the status
on_modified_unguarded(data, now_) ==
  LET deadline == get(data, "deadline", NoTimestamp)
  IN  IF deadline # NoTimestamp /\ now_ > replace_tzinfo_None(deadline)
      THEN [overdue |-> TRUE]
      ELSE NoUpdate

\* on_modified recording the overdue state in the status as well
on_modified_marks_status(data, now_) ==
  IF get(data, "status", "None") \notin {"resolved", "under_action"}
  THEN IF on_modified_unguarded(data, now_) # NoUpdate
       THEN [overdue |-> TRUE, status |-> "overdue"]
       ELSE NoUpdate
  ELSE NoUpdate

\* on_modified clearing the flag of a complaint that is in work or resolved
on_modified_clears(data, now_) ==
  IF get(data, "status", "None") \notin {"resolved", "under_action"}
  THEN on_modified_unguarded(data, now_)
  ELSE IF get(data, "overdue", FALSE) = TRUE THEN [overdue |-> FALSE]
  ELSE NoUpdate

\* on_modified granting an overdue complaint a new deadline
on_modified_extends(data, now_) ==
  IF get(data, "status", "None") \notin {"resolved", "under_action"}
  THEN IF on_modified_unguarded(data, now_) # NoUpdate
       THEN [overdue |-> TRUE,
             deadline |-> set_deadline(get(data, "priority", "Low"), now_)]
       ELSE NoUpdate
  ELSE NoUpdate

\* on_modified flagging a complaint already at its deadline
on_modified_at_deadline(data, now_) ==
  IF get(data, "status", "None") \notin {"resolved", "under_action"}
  THEN LET deadline == get(data, "deadline", NoTimestamp)
       IN  IF deadline # NoTimestamp /\ now_ >= replace_tzinfo_None(deadline)
           THEN [overdue |-> TRUE]
           ELSE NoUpdate
  ELSE NoUpdate

\* on_modified recording the overdue update in the audit log
on_modified_logs(data, now_) ==
  IF get(data, "status", "None") \notin {"resolved", "under_action"}
  THEN IF on_modified_unguarded(data, now_) # NoUpdate
       THEN [overdue |-> TRUE,
             actions |-> Append(get(data, "actions", <<>>),
                           [action    |-> <<"AI marked as overdue">>,
                            timestamp |-> isoformat(now_),
                            by        |-> "AI System"])]
       ELSE NoUpdate
  ELSE NoUpdate

\* the branch of on_snapshot for change.type.name == "MODIFIED"
on_modified(data, now_) ==
  IF get(data, "status", "None") \notin {"resolved", "under_action"}
  THEN LET deadline == get(data, "deadline", NoTimestamp)
       IN  IF deadline # NoTimestamp
           THEN IF now_ > replace_tzinfo_None(deadline)
                THEN [overdue |-> TRUE]
                ELSE NoUpdate
           ELSE NoUpdate
  ELSE NoUpdate

\* one iteration of the loop of on_snapshot
on_change(change, now_) ==
  IF change.type = "ADDED" THEN on_added(change.data, now_)
  ELSE IF change.type = "MODIFIED" THEN on_modified(change.data, now_)
  ELSE NoUpdate

(* ---------------------------- state ----------------------------------- *)
VARIABLES
  store,      \* the "complaints" collection: document id -> fields
  now,        \* datetime.now(), in hours
  created,    \* ids of the complaints ever created
  known,      \* ids of the documents the listener has been told of
  dirty,      \* ids of known documents changed since the last snapshot
  changes,    \* the rest of the batch on_snapshot is iterating over
  listening,  \* the listener still receives snapshots
  handled,    \* <<change>>: the change the last step processed, else <<>>
  issued,     \* <<call>>: the update() call the last step made, else <<>>
  classified  \* per id: classification updates applied (0, 1, 2 = more)

vars == <<store, now, created, known, dirty, changes, listening,
          handled, issued, classified>>

\* ids in increasing order
RECURSIVE SortedSeq(_)
SortedSeq(S) ==
  IF S = {} THEN <<>>
  ELSE LET m == CHOOSE x \in S : \A y \in S : x <= y
       IN  <<m>> \o SortedSeq(S \ {m})

\* the changes of the next snapshot: removed, added, then modified
\* documents, each with the fields the document has at that moment
NextChanges ==
  LET removed  == SortedSeq(known \ DOMAIN store)
      added    == SortedSeq(DOMAIN store \ known)
      modified == SortedSeq(dirty \cap known \cap DOMAIN store)
  IN  [k \in 1..Len(removed) |->
         [type |-> "REMOVED", id |-> removed[k], data |-> NoUpdate]]
      \o [k \in 1..Len(added) |->
         [type |-> "ADDED", id |-> added[k], data |-> store[added[k]]]]
      \o [k \in 1..Len(modified) |->
         [type |-> "MODIFIED", id |-> modified[k], data |-> store[modified[k]]]]

Init ==
  /\ store = [i \in {} |-> NoUpdate]
  /\ now = 0
  /\ created = {}
  /\ known = {}
  /\ dirty = {}
  /\ changes = <<>>
  /\ listening = TRUE
  /\ handled = <<>>
  /\ issued = <<>>
  /\ classified = [i \in Ids |-> 0]

Quiet == handled' = <<>> /\ issued' = <<>>

(* ---------------------------- external actors ------------------------- *)
\* What is outside ai.py: citizens file complaints with status "new";
\* officers move a classified complaint to "under_action" and then to
\* "resolved", never back; anybody may append to the audit log or delete a
\* complaint.  There is one listener process at a time.  A write that leaves
\* a document as it was produces no change event.
\* a citizen files a complaint; description may be missing
CreateComplaint(id, hasText, d) ==
  /\ id \notin created
  /\ \A j \in Ids \ created : id <= j
  /\ store' = [i \in DOMAIN store \cup {id} |->
                 IF i = id
                 THEN IF hasText THEN [status |-> "new", description |-> d]
                                 ELSE [status |-> "new"]
                 ELSE store[i]]
  /\ created' = created \cup {id}
  /\ Quiet
  /\ UNCHANGED <<now, known, dirty, changes, listening, classified>>

\* an officer takes up a classified complaint, or resolves one
ExternalStatus(i) ==
  /\ i \in DOMAIN store
  /\ store[i].status \in {"classified", "under_action"}
  /\ store' = [store EXCEPT ![i].status =
                 IF @ = "classified" THEN "under_action" ELSE "resolved"]
  /\ dirty' = dirty \cup {i}
  /\ Quiet
  /\ UNCHANGED <<now, created, known, changes, listening, classified>>

ExternalEntries(doc) ==
  Cardinality({k \in 1..Len(get(doc, "actions", <<>>)) :
                 doc.actions[k].by # "AI System"})

\* somebody else than the listener appends to the audit log
ExternalAction(i) ==
  /\ i \in DOMAIN store
  /\ ExternalEntries(store[i]) < MaxActions
  /\ store' = [store EXCEPT ![i] =
       document_update(@, [actions |->
          Append(get(@, "actions", <<>>),
                 [action |-> <<"note">>, timestamp |-> isoformat(now),
                  by |-> "Officer"])])]
  /\ dirty' = dirty \cup {i}
  /\ Quiet
  /\ UNCHANGED <<now, created, known, changes, listening, classified>>

\* a complaint is deleted from the collection
ExternalDelete(i) ==
  /\ i \in DOMAIN store
  /\ store' = [j \in DOMAIN store \ {i} |-> store[j]]
  /\ dirty' = dirty \ {i}
  /\ Quiet
  /\ UNCHANGED <<now, created, known, changes, listening, classified>>

TickStep == timedelta_hours(72)

Tick ==
  /\ now < MaxTicks * TickStep
  /\ now' = now + TickStep
  /\ Quiet
  /\ UNCHANGED <<store, created, known, dirty, changes, listening, classified>>

(* ---------------------------- the listener ---------------------------- *)
\* the feed hands the next snapshot to on_snapshot
Deliver ==
  /\ listening
  /\ changes = <<>>
  /\ NextChanges # <<>>
  /\ changes' = NextChanges
  /\ known' = DOMAIN store
  /\ dirty' = {}
  /\ Quiet
  /\ UNCHANGED <<store, now, created, listening, classified>>

IsClassification(fields) == "department" \in DOMAIN fields

\* one iteration of "for change in changes" in which nothing raises
ProcessChange ==
  /\ changes # <<>>
  /\ LET change == Head(changes)
         fields == on_change(change, now)
     IN  /\ handled' = <<change>>
         /\ IF fields = NoUpdate
            THEN /\ issued' = <<>>
                 /\ UNCHANGED <<store, dirty, classified>>
            ELSE /\ change.id \in DOMAIN store
                 /\ issued' = <<[id |-> change.id, fields |-> fields, ok |-> TRUE]>>
                 /\ store' = [store EXCEPT ![change.id] = document_update(@, fields)]
                 /\ dirty' = IF store' # store THEN dirty \cup {change.id} ELSE dirty
                 /\ classified' =
                      IF IsClassification(fields)
                      THEN [classified EXCEPT ![change.id] = IF @ < 2 THEN @ + 1 ELSE @]
                      ELSE classified
  /\ changes' = Tail(changes)
  /\ UNCHANGED <<now, created, known, listening>>

\* update() raises (the document is gone, or the store fails): the exception
\* leaves on_snapshot, the rest of the batch is never iterated, and whether
\* the listener is still served afterwards is up to the feed's thread
ProcessChangeRaises ==
  /\ changes # <<>>
  /\ LET change == Head(changes)
         fields == on_change(change, now)
     IN  /\ fields # NoUpdate
         /\ handled' = <<change>>
         /\ issued' = <<[id |-> change.id, fields |-> fields, ok |-> FALSE]>>
  /\ changes' = <<>>
  /\ listening' \in BOOLEAN
  /\ UNCHANGED <<store, now, created, known, dirty, classified>>

\* the process is started again: the new listener is told of every existing
\* document as "added"
Restart ==
  /\ known # {} \/ ~listening
  /\ known' = {}
  /\ dirty' = {}
  /\ changes' = <<>>
  /\ listening' = TRUE
  /\ Quiet
  /\ UNCHANGED <<store, now, created, classified>>

\* the life of one complaint
Next ==
  \/ \E i \in OneId, hasText \in BOOLEAN, d \in Descriptions :
        CreateComplaint(i, hasText, d)
  \/ \E i \in Ids : ExternalStatus(i)
  \/ \E i \in Ids : ExternalAction(i)
  \/ \E i \in Ids : ExternalDelete(i)
  \/ Tick
  \/ Deliver
  \/ ProcessChange
  \/ ProcessChangeRaises
  \/ Restart

Spec == Init /\ [][Next]_vars

\* two complaints, so that a snapshot can carry more than one change
BatchDescriptions == { <<"T","a","p"," "," ","L","E","A","K">> }

BatchNext ==
  \/ \E i \in Ids, d \in BatchDescriptions : CreateComplaint(i, TRUE, d)
  \/ \E i \in Ids : ExternalStatus(i)
  \/ \E i \in Ids : ExternalDelete(i)
  \/ Tick
  \/ Deliver
  \/ ProcessChange
  \/ ProcessChangeRaises
  \/ Restart

BatchSpec == Init /\ [][BatchNext]_vars

\* one complaint, no store failure, no deletion and no restart
CalmNext ==
  \/ \E i \in OneId, hasText \in BOOLEAN, d \in Descriptions :
        CreateComplaint(i, hasText, d)
  \/ \E i \in Ids : ExternalStatus(i)
  \/ \E i \in Ids : ExternalAction(i)
  \/ Tick
  \/ Deliver
  \/ ProcessChange

CalmSpec == Init /\ [][CalmNext]_vars

\* the classifier on many descriptions: one complaint is filed with a
\* description of up to MaxWords words, delivered and processed
Words ==
  << <<"N","o"," ","w","a","t","e","r">>,
     <<"P","I","P","E","L","I","N","E">>,
     <<"l","e","a","k","a","g","e","!">>,
     <<"f","i","r","e">>,
     <<"d","i","m">>,
     <<"r","o","a","d">>,
     <<"t","a","p">> >>

RECURSIVE TextsOf(_)
TextsOf(n) ==
  IF n = 0 THEN {<<>>}
  ELSE LET shorter == TextsOf(n - 1)
       IN  shorter \cup
           {IF t = <<>> THEN Words[w] ELSE t \o <<" ">> \o Words[w] :
              t \in shorter, w \in 1..Len(Words)}

Texts == TextsOf(MaxWords)

ClassifyNext ==
  \/ \E i \in OneId, d \in Texts : CreateComplaint(i, TRUE, d)
  \/ Deliver
  \/ ProcessChange

ClassifySpec == Init /\ [][ClassifyNext]_vars

\* a feed that reports every write of on_snapshot back as a "modified"
\* change, also a write that leaves the document as it was
ProcessChangeEcho ==
  /\ changes # <<>>
  /\ LET change == Head(changes)
         fields == on_change(change, now)
     IN  /\ handled' = <<change>>
         /\ IF fields = NoUpdate
            THEN /\ issued' = <<>>
                 /\ UNCHANGED <<store, dirty, classified>>
            ELSE /\ change.id \in DOMAIN store
                 /\ issued' = <<[id |-> change.id, fields |-> fields, ok |-> TRUE]>>
                 /\ store' = [store EXCEPT ![change.id] = document_update(@, fields)]
                 /\ dirty' = dirty \cup {change.id}
                 /\ classified' =
                      IF IsClassification(fields)
                      THEN [classified EXCEPT ![change.id] = IF @ < 2 THEN @ + 1 ELSE @]
                      ELSE classified
  /\ changes' = Tail(changes)
  /\ UNCHANGED <<now, created, known, listening>>

\* complaints that nobody but on_snapshot changes once they are filed
EchoNext ==
  \/ \E i \in OneId, hasText \in BOOLEAN, d \in Descriptions :
        CreateComplaint(i, hasText, d)
  \/ Tick
  \/ Deliver
  \/ ProcessChangeEcho

\* the feed delivers every snapshot it has; a behaviour in which on_snapshot
\* issues updates for ever runs on_snapshot for ever, so that no fairness of
\* ProcessChangeEcho is needed to tell whether the updates stop
EchoSpec ==
  /\ Init /\ [][EchoNext]_vars
  /\ WF_vars(Deliver)

\* a resolved complaint is opened again: its status becomes "new" through
\* a modification
ExternalReopen(i) ==
  /\ i \in DOMAIN store
  /\ store[i].status = "resolved"
  /\ store' = [store EXCEPT ![i].status = "new"]
  /\ dirty' = dirty \cup {i}
  /\ Quiet
  /\ UNCHANGED <<now, created, known, changes, listening, classified>>

\* no store failure, no deletion, no restart, and complaints may be reopened
ReopenNext ==
  \/ \E i \in OneId, hasText \in BOOLEAN, d \in Descriptions :
        CreateComplaint(i, hasText, d)
  \/ \E i \in Ids : ExternalStatus(i)
  \/ \E i \in Ids : ExternalReopen(i)
  \/ Tick
  \/ Deliver
  \/ ProcessChange

ReopenSpec == Init /\ [][ReopenNext]_vars

(* ---------------------------- properties ------------------------------ *)
\* the update() call of the last step, and the change it was made for
Issued  == issued[1]
Handled == handled[1]

PastNew == {"classified", "under_action", "resolved"}

ClassificationFields == {"department", "priority", "deadline"}

\* C1: each complaint id receives at most one classification update, and
\* once the stored status of a complaint is past "new" no update() call of
\* on_snapshot carries department, priority or deadline for it.
C1_ClassifiedAtMostOnce ==
  /\ [](\A i \in Ids : classified[i] <= 1)
  /\ [][\A i \in DOMAIN store :
          (store[i].status \in PastNew /\ issued' # <<>> /\ issued'[1].id = i)
            => DOMAIN issued'[1].fields \cap ClassificationFields = {}]_vars

\* a restart has replayed, as "added", a complaint that was classified once
\* and has been taken up since, and on_snapshot has processed that change
C1_Witness ==
  /\ handled # <<>>
  /\ Handled.type = "ADDED"
  /\ Handled.data.status = "under_action"
  /\ classified[Handled.id] = 1

\* C2: an "added" change whose document status is not "new" makes
\* on_snapshot issue no update at all.
C2_AddedNotNewNoUpdate ==
  (/\ handled # <<>>
   /\ Handled.type = "ADDED"
   /\ get(Handled.data, "status", "None") # "new") => issued = <<>>

\* the "added" change of an already classified complaint has been processed
C2_Witness ==
  /\ handled # <<>>
  /\ Handled.type = "ADDED"
  /\ Handled.data.status = "classified"
  /\ issued = <<>>

\* C3: a "modified" change of a complaint whose status is "resolved" or
\* "under_action" makes on_snapshot issue no update, expired deadline or not.
C3_ModifiedInWorkNoUpdate ==
  (/\ handled # <<>>
   /\ Handled.type = "MODIFIED"
   /\ get(Handled.data, "status", "None") \in {"resolved", "under_action"})
     => issued = <<>>

\* a "modified" change with status under_action and a deadline that has
\* expired has been processed
C3_Witness ==
  /\ handled # <<>>
  /\ Handled.type = "MODIFIED"
  /\ Handled.data.status = "under_action"
  /\ "deadline" \in DOMAIN Handled.data
  /\ now > Handled.data.deadline.wall
  /\ issued = <<>>

\* C4: an update() call of on_snapshot leaves the stored status of every
\* complaint as it is, or takes it from "new" to "classified".
C4_OnlyNewToClassified ==
  [][issued' # <<>> =>
       \A i \in DOMAIN store :
          /\ i \in DOMAIN store'
          /\ \/ store'[i].status = store[i].status
             \/ store[i].status = "new" /\ store'[i].status = "classified"]_vars

\* an update of on_snapshot has been applied to a complaint that an officer
\* took up between the snapshot and the update
C4_Witness ==
  /\ issued # <<>>
  /\ Issued.ok
  /\ Handled.data.status = "classified"
  /\ store[Issued.id].status = "under_action"

\* C5: a classification update keeps every entry that is in the stored
\* actions list at the time of the write, in order, and appends exactly one
\* entry by "AI System".
C5_ActionsAppendOnly ==
  [][(issued' # <<>> /\ issued'[1].ok /\ "actions" \in DOMAIN issued'[1].fields)
       => LET id   == issued'[1].id
              old  == get(store[id], "actions", <<>>)
              new  == store'[id].actions
          IN  /\ Len(new) = Len(old) + 1
              /\ SubSeq(new, 1, Len(old)) = old
              /\ new[Len(new)].by = "AI System"]_vars

\* C6: once overdue is true in the store, no update() call of on_snapshot
\* sets it to false or removes it.
C6_OverdueNeverReset ==
  [][issued' # <<>> =>
       \A i \in DOMAIN store :
          get(store[i], "overdue", FALSE) = TRUE
            => i \in DOMAIN store' /\ get(store'[i], "overdue", FALSE) = TRUE]_vars

\* an update of on_snapshot has been applied to a complaint whose snapshot
\* already had overdue = true
C6_Witness ==
  /\ issued # <<>>
  /\ Issued.ok
  /\ get(Handled.data, "overdue", FALSE) = TRUE
  /\ store[Issued.id].overdue = TRUE

\* C7: when update() raises for one change, only that change is dropped:
\* the changes after it in the batch are still to be processed.
C7_FailureDropsOneEvent ==
  [][(issued' # <<>> /\ ~issued'[1].ok) => changes' = Tail(changes)]_vars

\* C8: a complaint whose deadline has passed while its status is neither
\* "resolved" nor "under_action" is eventually flagged overdue: when the
\* listener has nothing left to do (no change to process, no snapshot to be
\* delivered), every such complaint has overdue = true.
DeadlinePassed(i) ==
  /\ i \in DOMAIN store
  /\ "deadline" \in DOMAIN store[i]
  /\ now > store[i].deadline.wall
  /\ store[i].status \notin {"resolved", "under_action"}

ListenerIdle == listening /\ changes = <<>> /\ NextChanges = <<>>

C8_EventuallyOverdue ==
  \A i \in OneId :
     (ListenerIdle /\ DeadlinePassed(i)) => get(store[i], "overdue", FALSE) = TRUE

\* C9: the deadline of a classification update is the time of the
\* classification plus 24 hours for High, 72 hours for Medium and 7 days
\* for any other priority written in the same update.
C9_Window(priority) ==
  CASE priority = "High"   -> 24
    [] priority = "Medium" -> 72
    [] OTHER               -> 7 * 24

C9_DeadlineFromPriority ==
  (issued # <<>> /\ "deadline" \in DOMAIN Issued.fields)
    => /\ Issued.fields.deadline = now + C9_Window(Issued.fields.priority)
       /\ Issued.ok => store[Issued.id].deadline.wall
                         = now + C9_Window(store[Issued.id].priority)

\* a Low classification made after the clock has moved
C9_Witness ==
  /\ issued # <<>>
  /\ Issued.ok
  /\ "deadline" \in DOMAIN Issued.fields
  /\ Issued.fields.priority = "Low"
  /\ now > 0
  /\ store[Issued.id].deadline.wall = now + 168

\* C10: once a complaint has department, priority and deadline, no update()
\* call of on_snapshot changes any of the three.
C10_ClassificationImmutable ==
  [][issued' # <<>> =>
       \A i \in DOMAIN store :
          "department" \in DOMAIN store[i]
            => /\ i \in DOMAIN store'
               /\ store'[i].department = store[i].department
               /\ store'[i].priority = store[i].priority
               /\ store'[i].deadline = store[i].deadline]_vars

\* the overdue update has been applied to a classified complaint, long after
\* its classification, and the three fields are those of the snapshot
C10_Witness ==
  /\ issued # <<>>
  /\ Issued.ok
  /\ Handled.type = "MODIFIED"
  /\ "department" \in DOMAIN Handled.data
  /\ now > Handled.data.lastUpdated.wall
  /\ store[Issued.id].department = Handled.data.department
  /\ store[Issued.id].priority = Handled.data.priority
  /\ store[Issued.id].deadline = Handled.data.deadline
\* C11: the departmentConfidence and priorityConfidence of every
\* classification update lie in the range 0..100.
C11_ConfidenceInRange ==
  (issued # <<>> /\ "departmentConfidence" \in DOMAIN Issued.fields)
    => /\ Issued.fields.departmentConfidence \in 0..100
       /\ Issued.fields.priorityConfidence \in 0..100

\* C12: every update on_snapshot applies to a complaint, the classification
\* update and the overdue update alike, sets lastUpdated to the time of the
\* update.
C12_LastUpdatedRefreshed ==
  (issued # <<>> /\ Issued.ok /\ Issued.id \in DOMAIN store)
    => /\ "lastUpdated" \in DOMAIN store[Issued.id]
       /\ store[Issued.id].lastUpdated = ToTimestamp(now)

\* C13: an "added" change with status "new" and no description is classified
\* as empty text: an update is issued with the first department and the
\* first priority of the tables, both with confidence 0.
C13_MissingDescription ==
  (/\ handled # <<>>
   /\ Handled.type = "ADDED"
   /\ get(Handled.data, "status", "None") = "new"
   /\ "description" \notin DOMAIN Handled.data)
     => /\ issued # <<>>
        /\ Issued.fields.department = "Water"
        /\ Issued.fields.departmentConfidence = 0
        /\ Issued.fields.priority = "High"
        /\ Issued.fields.priorityConfidence = 0
        /\ Issued.fields.status = "classified"

\* the classification of a complaint without description has been written
C13_Witness ==
  /\ handled # <<>>
  /\ Handled.type = "ADDED"
  /\ Handled.data.status = "new"
  /\ "description" \notin DOMAIN Handled.data
  /\ issued # <<>>
  /\ Issued.ok
  /\ store[Issued.id].department = "Water"
  /\ store[Issued.id].priority = "High"
  /\ "description" \notin DOMAIN store[Issued.id]

\* C14: the category the classifier returns has the greatest score of its
\* table, the score of a category being the number of its keyword phrases
\* that occur in the text, each counted once; of the categories that share
\* the greatest score it is the first in the order of declaration.
C14_Occurs(k, text) ==
  \E p \in 1..Len(text) : p + Len(k) - 1 <= Len(text)
                            /\ SubSeq(text, p, p + Len(k) - 1) = k

RECURSIVE C14_Score(_, _)
C14_Score(keywords, text) ==
  IF keywords = <<>> THEN 0
  ELSE (IF C14_Occurs(Head(keywords), text) THEN 1 ELSE 0)
       + C14_Score(Tail(keywords), text)

C14_IsFirstBest(best, order, table, text) ==
  \E n \in 1..Len(order) :
     /\ order[n] = best
     /\ \A j \in 1..Len(order) :
          C14_Score(table[order[j]], text) <= C14_Score(table[best], text)
     /\ \A j \in 1..(n - 1) :
          C14_Score(table[order[j]], text) < C14_Score(table[best], text)

C14_FirstBestCategory ==
  (issued # <<>> /\ "department" \in DOMAIN Issued.fields)
    => LET text == clean(get(Handled.data, "description", <<>>))
       IN  /\ C14_IsFirstBest(Issued.fields.department,
                 <<"Water", "Electricity", "Municipality", "PWD", "Police",
                   "Traffic">>, KEYWORDS, text)
           /\ C14_IsFirstBest(Issued.fields.priority,
                 <<"High", "Medium", "Low">>, PRIORITY_KEYWORDS, text)

\* "road tap": PWD and Water both score 1, and so do no other departments;
\* Water, declared first, has been written
C14_Witness ==
  /\ issued # <<>>
  /\ Issued.ok
  /\ clean(Handled.data.description) = <<"r","o","a","d"," ","t","a","p">>
  /\ store[Issued.id].department = "Water"
  /\ store[Issued.id].departmentConfidence = 20

\* C15: on a "modified" change the overdue update is issued only if the
\* document of the change has a deadline and the current time is strictly
\* later than it.
C15_OverdueOnlyPastDeadline ==
  (handled # <<>> /\ Handled.type = "MODIFIED" /\ issued # <<>>)
    => /\ "deadline" \in DOMAIN Handled.data
       /\ now > Handled.data.deadline.wall
       /\ Issued.fields = [overdue |-> TRUE]

\* a "modified" change of a classified complaint has been processed at the
\* very hour of its deadline, and no update was issued
C15_Witness ==
  /\ handled # <<>>
  /\ Handled.type = "MODIFIED"
  /\ Handled.data.status = "classified"
  /\ "deadline" \in DOMAIN Handled.data
  /\ now = Handled.data.deadline.wall
  /\ issued = <<>>

\* C16: on_snapshot never writes overdue = true to a complaint whose stored
\* status is "resolved" or "under_action" at the moment of the write.
C16_NoOverdueWriteInWork ==
  (/\ issued # <<>>
   /\ Issued.ok
   /\ "overdue" \in DOMAIN Issued.fields
   /\ Issued.id \in DOMAIN store)
     => store[Issued.id].status \notin {"resolved", "under_action"}

\* C17: no update of on_snapshot changes the id or the description of a
\* complaint, and the overdue update changes none of status, department,
\* priority, deadline and actions.
C17_Same(f, before, after) ==
  /\ (f \in DOMAIN before) = (f \in DOMAIN after)
  /\ f \in DOMAIN before => after[f] = before[f]

C17_Frame ==
  [][issued' # <<>> =>
       /\ DOMAIN store' = DOMAIN store
       /\ \A i \in DOMAIN store :
            /\ C17_Same("description", store[i], store'[i])
            /\ "overdue" \in DOMAIN issued'[1].fields
                 => \A f \in {"status", "department", "priority",
                               "deadline", "actions"} :
                       C17_Same(f, store[i], store'[i])]_vars

\* the overdue update has been applied to a complaint that has a
\* description and an audit log longer than the one of the snapshot
C17_Witness ==
  /\ issued # <<>>
  /\ Issued.ok
  /\ "overdue" \in DOMAIN Issued.fields
  /\ "description" \in DOMAIN store[Issued.id]
  /\ store[Issued.id].description = Handled.data.description
  /\ Len(store[Issued.id].actions) > Len(Handled.data.actions)

\* C18: when every update of on_snapshot comes back as a "modified" change
\* and nobody else changes the complaints, on_snapshot issues finitely many
\* updates: from some point on no step issues one.
C18_UpdatesStop == <>[][issued' = <<>>]_vars

\* C19 as stated: with no failing update and every change delivered and
\* handled, a complaint that has status "new", from its creation or through
\* a later modification, ends up classified: when the listener has nothing
\* left to do, no complaint has status "new" and every complaint has
\* department, priority and deadline.
C19_EveryNewClassified ==
  ListenerIdle =>
    \A i \in DOMAIN store :
       /\ store[i].status # "new"
       /\ ClassificationFields \subseteq DOMAIN store[i]

\* C19 as amended: every complaint added with status "new" is classified:
\* when the listener has nothing left to do, every complaint has received
\* its classification update, the one that sets status "classified", and
\* has department, priority and deadline.
C19_EveryAddedNewClassified ==
  ListenerIdle =>
    \A i \in DOMAIN store :
       /\ classified[i] = 1
       /\ ClassificationFields \subseteq DOMAIN store[i]

\* the listener is idle and the complaint it was told of as "added" with
\* status "new" is classified
C19_Witness ==
  /\ ListenerIdle
  /\ 1 \in DOMAIN store
  /\ store[1].status = "classified"
  /\ classified[1] = 1
  /\ store[1].deadline.wall = store[1].lastUpdated.wall + C9_Window(store[1].priority)

=============================================================================
